---- MODULE Spec2Model ----
(***************************************************************************)
(* Model of vrclogunrotate (src/src/main.rs): a background thread that     *)
(* every 60 s lists the VRChat log directory, reads the 30-byte header of  *)
(* each candidate, and hard-links dated logs into                          *)
(* <collection>/<YYYY>-<MM>/<DD>/<file name>; step errors go to the UI     *)
(* over an mpsc channel, and a drop guard posts a crash notice.            *)
(*                                                                         *)
(* Bytes and characters are one-character strings; "\n" is the line feed;  *)
(* "xD9" followed by "xA0".."xA9" is the UTF-8 encoding of the             *)
(* Arabic-Indic digits U+0660..U+0669, and "u0660".."u0669" are those      *)
(* characters in a str.                                                    *)
(***************************************************************************)
EXTENDS Integers, Sequences, FiniteSets, TLC

VARIABLES
    pc,            \* position of init / the background thread
    watched,       \* the VRChat log directory: name -> entry
    content,       \* file object -> its bytes
    fault,         \* the failure the filesystem currently answers with
    dirs,          \* directories existing at or under the collection root
    links,         \* destination path -> file object (the hard links)
    lastRes,       \* outcome of the last Unrotate::step; "none" while it runs
    lastRun,       \* what the current or last step listed, how many candidates
                   \* it has done, what it created, and whether it began with
                   \* quiet true
    quiet,         \* the last step returned Ok and the watched directory is as it saw it
    nSteps,        \* number of steps executed
    sent,          \* errors tx.send accepted, in order
    queue,         \* errors in the mpsc channel
    shown,         \* errors shown by SystemTray::on_error, in order
    errNotices,    \* error notices posted and not yet handled
    crashArmed,    \* CrashNotifier.0 is Some
    crashNotices,  \* number of crash notices sent
    crashShown,    \* SystemTray::on_crash has run
    rxOpen         \* the UI runs and holds the Receiver

vars == <<pc, watched, content, fault, dirs, links, lastRes, lastRun, quiet,
          nSteps, sent, queue, shown, errNotices, crashArmed, crashNotices,
          crashShown, rxOpen>>

fsVars == <<watched, content, fault>>
colVars == <<dirs, links>>
uiVars == <<queue, shown, errNotices, crashShown, rxOpen>>

-----------------------------------------------------------------------------
(* Bounds *)

MaxSteps == 2

-----------------------------------------------------------------------------
(* Characters *)

AsciiDigits == <<"0", "1", "2", "3", "4", "5", "6", "7", "8", "9">>

IsAsciiDigit(c) == \E i \in 1..10 : AsciiDigits[i] = c

DigitVal(c) == (CHOOSE i \in 1..10 : AsciiDigits[i] = c) - 1

\* second bytes of the UTF-8 encoding of U+0660..U+0669 (first byte xD9)
ArabicTail == {"xA0", "xA1", "xA2", "xA3", "xA4", "xA5", "xA6", "xA7", "xA8", "xA9"}

\* the same characters in a str
ArabicChars == {"u0660", "u0661", "u0662", "u0663", "u0664", "u0665", "u0666",
                "u0667", "u0668", "u0669"}

Fill(n) == [i \in 1..n |-> "x"]

-----------------------------------------------------------------------------
(* Date Classifier: VRCLogfile::new *)

HeadLen == 30

\* \d of regex::bytes (Unicode on): the length in bytes of the decimal digit
\* starting at buf[i], 0 when there is none
DigitLenAt(buf, i) ==
    IF i < 1 \/ i > Len(buf) THEN 0
    ELSE IF IsAsciiDigit(buf[i]) THEN 1
    ELSE IF buf[i] = "xD9" /\ i + 1 <= Len(buf) /\ buf[i + 1] \in ArabicTail THEN 2
    ELSE 0

\* \d{k} from position i: the position after the match, 0 when it fails
RECURSIVE MatchDigits(_, _, _)
MatchDigits(buf, i, k) ==
    IF i = 0 THEN 0
    ELSE IF k = 0 THEN i
    ELSE LET n == DigitLenAt(buf, i)
         IN  IF n = 0 THEN 0 ELSE MatchDigits(buf, i + n, k - 1)

\* a literal byte at position i: the position after it, 0 when it fails
MatchLit(buf, i, c) ==
    IF i >= 1 /\ i <= Len(buf) /\ buf[i] = c THEN i + 1 ELSE 0

\* (?m)^ : the start of the buffer or the position after a line feed
LineStart(buf, s) == s = 1 \/ buf[s - 1] = "\n"

NoCaptures == [found |-> FALSE, yyyy |-> <<>>, MM |-> <<>>, dd |-> <<>>]

\* the pattern of RE tried at start position s
MatchAt(buf, s) ==
    LET p1  == MatchDigits(buf, s, 4)
        p2  == MatchLit(buf, p1, ".")
        p3  == MatchDigits(buf, p2, 2)
        p4  == MatchLit(buf, p3, ".")
        p5  == MatchDigits(buf, p4, 2)
        p6  == MatchLit(buf, p5, " ")
        p7  == MatchDigits(buf, p6, 2)
        p8  == MatchLit(buf, p7, ":")
        p9  == MatchDigits(buf, p8, 2)
        p10 == MatchLit(buf, p9, ":")
        p11 == MatchDigits(buf, p10, 2)
        p12 == MatchLit(buf, p11, " ")
    IN  IF p12 = 0 THEN NoCaptures
        ELSE [found |-> TRUE,
              yyyy  |-> SubSeq(buf, s, p1 - 1),
              MM    |-> SubSeq(buf, p2, p3 - 1),
              dd    |-> SubSeq(buf, p4, p5 - 1)]

\* RE.captures(&head_buf): the leftmost match
RE_captures(buf) ==
    LET starts == {s \in 1..Len(buf) : LineStart(buf, s) /\ MatchAt(buf, s).found}
    IN  IF starts = {} THEN NoCaptures
        ELSE MatchAt(buf, CHOOSE s \in starts : \A t \in starts : s <= t)

\* str::parse of an integer: only ASCII digits are accepted
ParseOk(bytes) == Len(bytes) > 0 /\ \A i \in 1..Len(bytes) : IsAsciiDigit(bytes[i])

RECURSIVE ParseInt(_)
ParseInt(bytes) ==
    IF Len(bytes) = 0 THEN 0
    ELSE 10 * ParseInt(SubSeq(bytes, 1, Len(bytes) - 1)) + DigitVal(bytes[Len(bytes)])

IsLeap(y) == y % 4 = 0 /\ (y % 100 # 0 \/ y % 400 = 0)

DaysIn(y, m) ==
    IF m = 2 THEN (IF IsLeap(y) THEN 29 ELSE 28)
    ELSE IF m \in {4, 6, 9, 11} THEN 30 ELSE 31

\* NaiveDate::from_ymd panics unless the date exists
ValidYmd(y, m, d) == m \in 1..12 /\ d >= 1 /\ d <= DaysIn(y, m)

\* the outcome of VRCLogfile::new on the bytes of an opened file:
\* "err" (io::Error), "none" (Ok(None)), "some" (Ok(Some)), "panic"
NoDate == [year |-> 0, month |-> 0, day |-> 0]

\* the classifier with read in place of read_exact: a short file leaves the
\* rest of the buffer zero
Classify_read(bytes) ==
    LET head_buf == SubSeq(bytes \o [i \in 1..HeadLen |-> "x00"], 1, HeadLen)
        captures == RE_captures(head_buf)
    IN  IF ~captures.found THEN [tag |-> "none", date |-> NoDate]
        ELSE IF ~(ParseOk(captures.yyyy) /\ ParseOk(captures.MM) /\ ParseOk(captures.dd))
             THEN [tag |-> "panic", date |-> NoDate]
        ELSE LET year  == ParseInt(captures.yyyy)
                 month == ParseInt(captures.MM)
                 day   == ParseInt(captures.dd)
             IN  IF ~ValidYmd(year, month, day) THEN [tag |-> "panic", date |-> NoDate]
                 ELSE [tag |-> "some",
                       date |-> [year |-> year, month |-> month, day |-> day]]

Classify(bytes) ==
    IF Len(bytes) < HeadLen THEN [tag |-> "err", date |-> NoDate]
    ELSE LET head_buf == SubSeq(bytes, 1, HeadLen)
             captures == RE_captures(head_buf)
         IN  IF ~captures.found THEN [tag |-> "none", date |-> NoDate]
             ELSE IF ~(ParseOk(captures.yyyy) /\ ParseOk(captures.MM) /\ ParseOk(captures.dd))
                  THEN [tag |-> "panic", date |-> NoDate]
             ELSE LET year  == ParseInt(captures.yyyy)
                      month == ParseInt(captures.MM)
                      day   == ParseInt(captures.dd)
                  IN  IF ~ValidYmd(year, month, day) THEN [tag |-> "panic", date |-> NoDate]
                      ELSE [tag |-> "some",
                            date |-> [year |-> year, month |-> month, day |-> day]]

-----------------------------------------------------------------------------
(* The files and names the environment uses *)

N1 == <<"o", "u", "t", "p", "u", "t", "_", "l", "o", "g", "_",
        "1", "2", "-", "3", "4", "-", "5", "6", ".", "t", "x", "t">>

N2 == <<"o", "u", "t", "p", "u", "t", "_", "l", "o", "g", "_",
        "0", "1", "-", "0", "2", "-", "0", "3", ".", "t", "x", "t">>

N3 == <<"n", "o", "t", "a", "l", "o", "g", ".", "t", "x", "t">>

Names == {N1, N2, N3}

Stamp(y, m, d) ==
    y \o <<".">> \o m \o <<".">> \o d \o <<" ", "1", "2", ":", "3", "4", ":", "5", "6", " ">>

StampA == Stamp(<<"2", "0", "2", "4">>, <<"0", "3">>, <<"0", "7">>)
StampB == Stamp(<<"2", "0", "2", "3">>, <<"1", "2">>, <<"3", "1">>)
StampBad == Stamp(<<"2", "0", "2", "4">>, <<"1", "3">>, <<"3", "2">>)

Files == {"a0", "a1", "sh", "no", "bad"}

\* a0: stamp in the first line; a1: stamp in the second line; sh: a log
\* of 12 bytes still being written; no: stamp cut by the 30-byte window;
\* bad: a stamp that is no calendar date
InitContent ==
    [f \in Files |->
        CASE f = "a0"  -> StampA \o Fill(12)
          [] f = "a1"  -> Fill(5) \o <<"\n">> \o StampA \o Fill(6)
          [] f = "sh"  -> SubSeq(StampB, 1, 12)
          [] f = "no"  -> Fill(10) \o <<"\n">> \o StampA \o Fill(4)
          [] f = "bad" -> StampBad \o Fill(10)]

\* what the writer of a log appends to a file shorter than the header
Grown(bytes) == bytes \o SubSeq(StampB, Len(bytes) + 1, Len(StampB)) \o Fill(10)

NoEntry == [kind |-> "absent", ino |-> "-"]
FileEntry(f) == [kind |-> "file", ino |-> f]
DirEntry == [kind |-> "dir", ino |-> "-"]
SymlinkEntry == [kind |-> "symlink", ino |-> "-"]

\* a log at every length below the header's, the empty file included
ShortBodies == {SubSeq(StampA \o Fill(10), 1, k) : k \in 0..(HeadLen - 1)}

\* the bytes a file can hold
Bodies ==
    {InitContent[f] : f \in Files}
    \cup {Grown(InitContent[f]) : f \in {g \in Files : Len(InitContent[g]) < HeadLen}}
    \cup ShortBodies

\* the entries the environment puts into the watched directory
EnvPuts ==
    {<<N1, FileEntry(f)>> : f \in Files}
    \cup {<<N2, FileEntry("sh")>>, <<N2, DirEntry>>}
    \cup {<<N3, FileEntry("a0")>>}

Faults == {"none", "read_dir", "dir_entry", "mkdir", "link"}

ListFaults == {"read_dir", "dir_entry"}

\* VRCLogfile::new on each of these bytes
ClassOf == [b \in Bodies |-> Classify(b)]

-----------------------------------------------------------------------------
(* Partitioned Store: UnrotateCollection *)

RECURSIVE DigitsOf(_)
DigitsOf(n) ==
    IF n < 10 THEN <<AsciiDigits[n + 1]>>
    ELSE DigitsOf(n \div 10) \o <<AsciiDigits[(n % 10) + 1]>>

\* format!("{}", n): no padding
Pad_none(n, w) == DigitsOf(n)

\* format!("{:0w}", n)
Pad(n, w) ==
    LET d == DigitsOf(n)
    IN  IF Len(d) >= w THEN d ELSE [i \in 1..(w - Len(d)) |-> "0"] \o d

\* the path below the collection root, as its components
partition_folder_path(date) ==
    << Pad(date.year, 4) \o <<"-">> \o Pad(date.month, 2), Pad(date.day, 2) >>

\* a path and all its ancestors down to the collection root <<>>
Ancestors(path) == {SubSeq(path, 1, k) : k \in 0..Len(path)}

\* create_dir_all as a plain mkdir of each component: an existing directory
\* is an error
create_dir_all_strict(d, path) ==
    IF path \in d THEN [ok |-> FALSE, dirs |-> d]
    ELSE [ok |-> TRUE, dirs |-> d \cup Ancestors(path)]

\* fs::create_dir_all: creates the missing directories of the path; an
\* existing directory is success whatever the fault
create_dir_all(d, path) ==
    LET missing == Ancestors(path) \ d
    IN  IF missing # {} /\ fault = "mkdir" THEN [ok |-> FALSE, dirs |-> d]
        ELSE [ok |-> TRUE, dirs |-> d \cup missing]

\* hard_link replacing an existing destination
hard_link_overwrite(l, src, dst) ==
    IF watched[src].kind # "file" THEN [res |-> "other", links |-> l]
    ELSE IF fault = "link" THEN [res |-> "other", links |-> l]
    ELSE [res |-> "ok",
          links |-> [p \in DOMAIN l \cup {dst} |->
                        IF p = dst THEN watched[src].ino ELSE l[p]]]

\* fs::hard_link(src, dst): "ok", "exists" (ErrorKind::AlreadyExists) or
\* "other"; src is a name in the watched directory
hard_link(l, src, dst) ==
    IF watched[src].kind # "file" THEN [res |-> "other", links |-> l]
    ELSE IF dst \in DOMAIN l THEN [res |-> "exists", links |-> l]
    ELSE IF fault = "link" THEN [res |-> "other", links |-> l]
    ELSE [res |-> "ok", links |-> l @@ (dst :> watched[src].ino)]

\* create_link with fs::copy in place of fs::hard_link: the destination is
\* a new file
create_link_copy(d, l, logfile) ==
    LET dst == partition_folder_path(logfile.date) \o <<logfile.path>>
        mk == create_dir_all(d, partition_folder_path(logfile.date))
    IN  IF ~mk.ok THEN [err |-> "mkdir", dirs |-> d, links |-> l, made |-> FALSE]
        ELSE IF dst \in DOMAIN l
        THEN [err |-> "", dirs |-> mk.dirs, links |-> l, made |-> FALSE]
        ELSE IF fault = "link"
        THEN [err |-> "link", dirs |-> mk.dirs, links |-> l, made |-> FALSE]
        ELSE [err |-> "", dirs |-> mk.dirs, links |-> l @@ (dst :> "copy"), made |-> TRUE]

\* create_link without the AlreadyExists arm: every hard_link error is an error
create_link_strict(d, l, logfile) ==
    LET dst == partition_folder_path(logfile.date) \o <<logfile.path>>
        mk == create_dir_all(d, partition_folder_path(logfile.date))
    IN  IF ~mk.ok THEN [err |-> "mkdir", dirs |-> d, links |-> l, made |-> FALSE]
        ELSE LET hl == hard_link(l, logfile.path, dst)
             IN  IF hl.res = "ok"
                 THEN [err |-> "", dirs |-> mk.dirs, links |-> hl.links, made |-> TRUE]
                 ELSE [err |-> "link", dirs |-> mk.dirs, links |-> l, made |-> FALSE]

new_link_path(logfile) == partition_folder_path(logfile.date) \o <<logfile.path>>

\* fs::rename in place of fs::hard_link: the source entry is moved away
rename_source(w, src) == [w EXCEPT ![src] = NoEntry]

\* the watched directory after fs::hard_link(src, dst) made a link: the
\* source keeps its entry
hard_link_source(w, src) == w

\* UnrotateCollection::create_link on the store (d, l); err is "" on success
create_link(d, l, logfile) ==
    LET mk == create_dir_all(d, partition_folder_path(logfile.date))
    IN  IF ~mk.ok THEN [err |-> "mkdir", dirs |-> d, links |-> l, made |-> FALSE]
        ELSE LET hl == hard_link(l, logfile.path, new_link_path(logfile))
             IN  IF hl.res \in {"ok", "exists"}
                 THEN [err |-> "", dirs |-> mk.dirs, links |-> hl.links,
                       made |-> hl.res = "ok"]
                 ELSE [err |-> "link", dirs |-> mk.dirs, links |-> l, made |-> FALSE]

-----------------------------------------------------------------------------
(* Source Scanner: LocalLowVRChat::list_logfile_paths *)

IsDigitChar(c) == IsAsciiDigit(c) \/ c \in ArabicChars

RECURSIVE MatchDigitChars(_, _, _)
MatchDigitChars(name, i, k) ==
    IF i = 0 THEN 0
    ELSE IF k = 0 THEN i
    ELSE IF i <= Len(name) /\ IsDigitChar(name[i]) THEN MatchDigitChars(name, i + 1, k - 1)
    ELSE 0

RECURSIVE MatchLits(_, _, _)
MatchLits(name, i, lits) ==
    IF i = 0 THEN 0
    ELSE IF lits = <<>> THEN i
    ELSE MatchLits(name, MatchLit(name, i, Head(lits)), Tail(lits))

\* RE.is_match(file_name) for ^output_log_\d{2}-\d{2}-\d{2}\.txt$
NameMatches(name) ==
    LET p1 == MatchLits(name, 1, <<"o", "u", "t", "p", "u", "t", "_", "l", "o", "g", "_">>)
        p2 == MatchDigitChars(name, p1, 2)
        p3 == MatchLit(name, p2, "-")
        p4 == MatchDigitChars(name, p3, 2)
        p5 == MatchLit(name, p4, "-")
        p6 == MatchDigitChars(name, p5, 2)
        p7 == MatchLits(name, p6, <<".", "t", "x", "t">>)
    IN  p7 = Len(name) + 1

RECURSIVE FilterSeq(_, _)
FilterSeq(seq, keep) ==
    IF seq = <<>> THEN <<>>
    ELSE (IF Head(seq) \in keep THEN <<Head(seq)>> ELSE <<>>) \o FilterSeq(Tail(seq), keep)

Present == {n \in DOMAIN watched : watched[n].kind # "absent"}

OutputLog == <<"o", "u", "t", "p", "u", "t", "_", "l", "o", "g", "_">>

NamePrefixes == {OutputLog, <<"O">> \o Tail(OutputLog), <<"x">> \o OutputLog}

NameFirst == {<<"1", "2">>, <<"u0661", "2">>, <<"1", "a">>, <<"1">>, <<"1", "2", "3">>}

NameSecond == {<<"3", "4">>, <<"3", "u0664">>}

NameThird == {<<"5", "6">>, <<"5">>}

NameSuffixes ==
    {<<".", "t", "x", "t">>, <<".", "T", "X", "T">>, <<".", "t", "x", "t", "x">>,
     <<"x", "t", "x", "t">>}

\* file names near the pattern: other case, other digits, bytes before or after
TrialNames ==
    {p \o a \o <<"-">> \o b \o <<"-">> \o c \o x :
        p \in NamePrefixes, a \in NameFirst, b \in NameSecond, c \in NameThird,
        x \in NameSuffixes}

\* the names that the filter selects
Matching == {n \in Names \cup TrialNames : NameMatches(n)}

\* the orders in which read_dir may yield the entries
ReadDirOrders ==
    {o \in [1..Cardinality(Present) -> Present] : \A i, j \in DOMAIN o : o[i] = o[j] => i = j}

\* a listing that drops an entry it cannot read and returns the others
list_logfile_paths_skip(order) ==
    IF fault = "read_dir" THEN [ok |-> FALSE, paths |-> <<>>]
    ELSE IF fault = "dir_entry" /\ order # <<>>
    THEN [ok |-> TRUE,
          paths |-> FilterSeq(Tail(order),
                              {n \in Present : watched[n].kind = "file" /\ n \in Matching})]
    ELSE [ok |-> TRUE,
          paths |-> FilterSeq(order, {n \in Present : watched[n].kind = "file" /\ n \in Matching})]

\* list_logfile_paths when read_dir yields the entries in this order
list_logfile_paths(order) ==
    IF fault = "read_dir" THEN [ok |-> FALSE, paths |-> <<>>]
    ELSE IF fault = "dir_entry" /\ order # <<>> THEN [ok |-> FALSE, paths |-> <<>>]
    ELSE [ok |-> TRUE,
          paths |-> FilterSeq(order, {n \in Present : watched[n].kind = "file" /\ n \in Matching})]

\* a classifier that reports a header without a stamp as an error
VRCLogfile_new_strict(path) ==
    IF watched[path].kind # "file" THEN [tag |-> "err", date |-> NoDate]
    ELSE IF ClassOf[content[watched[path].ino]].tag = "none"
    THEN [tag |-> "err", date |-> NoDate]
    ELSE ClassOf[content[watched[path].ino]]

\* VRCLogfile::new(path): open read-only, read_exact 30 bytes, classify
VRCLogfile_new(path) ==
    IF watched[path].kind # "file" THEN [tag |-> "err", date |-> NoDate]
    ELSE ClassOf[content[watched[path].ino]]

-----------------------------------------------------------------------------
(* Unrotate::step *)

\* a loop body that undoes the links of the step when its candidate fails
step_body_rollback(path) ==
    LET c == VRCLogfile_new(path)
        undone == [p \in DOMAIN links \ {e.dest : e \in lastRun.created} |-> links[p]]
    IN  IF c.tag = "err"
        THEN [res |-> "read", dirs |-> dirs, links |-> undone, made |-> FALSE, dest |-> <<>>]
        ELSE IF c.tag = "panic"
        THEN [res |-> "panic", dirs |-> dirs, links |-> undone, made |-> FALSE, dest |-> <<>>]
        ELSE IF c.tag = "none"
        THEN [res |-> "ok", dirs |-> dirs, links |-> links, made |-> FALSE, dest |-> <<>>]
        ELSE LET logfile == [path |-> path, date |-> c.date]
             IN  CHOOSE out \in {[res |-> IF r.err = "" THEN "ok" ELSE r.err,
                                  dirs |-> r.dirs,
                                  links |-> IF r.err = "" THEN r.links ELSE undone,
                                  made |-> r.made,
                                  dest |-> new_link_path(logfile)]
                                 : r \in {create_link(dirs, links, logfile)}} : TRUE

\* a loop body that goes on to the next candidate when one cannot be read
step_body_continue(path) ==
    LET c == VRCLogfile_new(path)
    IN  IF c.tag = "err"
        THEN [res |-> "ok", dirs |-> dirs, links |-> links, made |-> FALSE, dest |-> <<>>]
        ELSE IF c.tag = "panic"
        THEN [res |-> "panic", dirs |-> dirs, links |-> links, made |-> FALSE, dest |-> <<>>]
        ELSE IF c.tag = "none"
        THEN [res |-> "ok", dirs |-> dirs, links |-> links, made |-> FALSE, dest |-> <<>>]
        ELSE LET logfile == [path |-> path, date |-> c.date]
             IN  CHOOSE out \in {[res |-> IF r.err = "" THEN "ok" ELSE r.err,
                                  dirs |-> r.dirs, links |-> r.links, made |-> r.made,
                                  dest |-> new_link_path(logfile)]
                                 : r \in {create_link(dirs, links, logfile)}} : TRUE

\* the body of the for loop of step for one candidate, on the store as it is
step_body(path) ==
    LET c == VRCLogfile_new(path)
    IN  IF c.tag = "err"
        THEN [res |-> "read", dirs |-> dirs, links |-> links, made |-> FALSE, dest |-> <<>>]
        ELSE IF c.tag = "panic"
        THEN [res |-> "panic", dirs |-> dirs, links |-> links, made |-> FALSE, dest |-> <<>>]
        ELSE IF c.tag = "none"
        THEN [res |-> "ok", dirs |-> dirs, links |-> links, made |-> FALSE, dest |-> <<>>]
        ELSE LET logfile == [path |-> path, date |-> c.date]
             IN  \* create_link(...)? : the error leaves the loop
                 CHOOSE out \in {[res |-> IF r.err = "" THEN "ok" ELSE r.err,
                                  dirs |-> r.dirs, links |-> r.links, made |-> r.made,
                                  dest |-> new_link_path(logfile)]
                                 : r \in {create_link(dirs, links, logfile)}} : TRUE

-----------------------------------------------------------------------------
(* CrashNotifier *)

\* disable that leaves the sender in place
CrashNotifier_disable_noop(armed) == armed

\* CrashNotifier::disable
CrashNotifier_disable(armed) == FALSE

\* a guard whose drop sends nothing
CrashNotifier_drop_silent(armed, count) == count

\* Drop for CrashNotifier: the number of crash notices sent afterwards
CrashNotifier_drop(armed, count) == IF armed THEN count + 1 ELSE count

-----------------------------------------------------------------------------
(* Initial state: the process has started, SystemTray::init has not run *)

NoRun == [paths |-> <<>>, done |-> 0, created |-> {}, again |-> FALSE]

InitWith(w) ==
    /\ pc = "init"
    /\ watched = w
    /\ content = InitContent
    /\ fault = "none"
    /\ dirs = {}
    /\ links = <<>>
    /\ lastRes = "none"
    /\ lastRun = NoRun
    /\ quiet = FALSE
    /\ nSteps = 0
    /\ sent = <<>>
    /\ queue = <<>>
    /\ shown = <<>>
    /\ errNotices = 0
    /\ crashArmed = FALSE
    /\ crashNotices = 0
    /\ crashShown = FALSE
    /\ rxOpen = TRUE

\* the watched directory is empty when the program starts
Init == InitWith([n \in Names |-> NoEntry])

-----------------------------------------------------------------------------
(* SystemTray::init and the background thread *)

\* init: Unrotate::new() succeeds, the thread is spawned
InitOk ==
    /\ pc = "init"
    /\ pc' = "step"
    /\ crashArmed' = TRUE
    /\ UNCHANGED <<sent, fsVars, colVars, lastRes, lastRun, quiet, nSteps, uiVars, crashNotices>>

\* init: Unrotate::new() fails, unwrap panics and the guard is dropped
InitFail ==
    /\ pc = "init"
    /\ pc' = "setupfailed"
    /\ crashArmed' = TRUE
    /\ crashNotices' = CrashNotifier_drop(TRUE, crashNotices)
    /\ UNCHANGED <<sent, fsVars, colVars, lastRes, lastRun, quiet, nSteps, uiVars>>

\* unrotate.step() up to the for loop: list_logfile_paths()?; with no
\* candidate the loop is empty and the step returns Ok
StepList ==
    /\ pc = "step"
    /\ nSteps < MaxSteps
    /\ \E order \in ReadDirOrders : \E ls \in {list_logfile_paths(order)} :
             /\ lastRun' = [paths |-> ls.paths, done |-> 0, created |-> {}, again |-> quiet]
             /\ lastRes' = IF ~ls.ok THEN "list"
                           ELSE IF ls.paths = <<>> THEN "ok" ELSE "none"
             /\ pc' = IF ~ls.ok THEN "send"
                      ELSE IF ls.paths = <<>> THEN "sleep" ELSE "loop"
             /\ quiet' = IF ~ls.ok THEN FALSE
                         ELSE IF ls.paths = <<>> THEN TRUE ELSE quiet
    /\ nSteps' = nSteps + 1
    /\ UNCHANGED <<sent, fsVars, colVars, uiVars, crashArmed, crashNotices>>

\* one turn of the for loop of step: the next candidate is opened and, when
\* dated, linked; an error returns from the step, a panic unwinds the thread
\* and drops the guard, and after the last candidate the step returns Ok
StepLoop ==
    /\ pc = "loop"
    /\ \E r \in {step_body(lastRun.paths[lastRun.done + 1])} :
             /\ dirs' = r.dirs
             /\ links' = r.links
             /\ IF r.res = "ok"
                THEN /\ lastRun' = [lastRun EXCEPT
                            !.done = @ + 1,
                            !.created = IF r.made
                                        THEN @ \cup {[dest |-> r.dest,
                                                      ino |-> watched[lastRun.paths[lastRun.done + 1]].ino]}
                                        ELSE @]
                     /\ IF lastRun.done + 1 = Len(lastRun.paths)
                        THEN pc' = "sleep" /\ lastRes' = "ok" /\ quiet' = TRUE
                        ELSE pc' = "loop" /\ UNCHANGED <<lastRes, quiet>>
                     /\ UNCHANGED crashNotices
                ELSE /\ lastRun' = lastRun
                     /\ lastRes' = r.res
                     /\ quiet' = FALSE
                     /\ pc' = IF r.res = "panic" THEN "panicked" ELSE "send"
                     /\ crashNotices' = IF r.res = "panic"
                                        THEN CrashNotifier_drop(crashArmed, crashNotices)
                                        ELSE crashNotices
             /\ watched' = IF r.made
                           THEN hard_link_source(watched, lastRun.paths[lastRun.done + 1])
                           ELSE watched
    /\ UNCHANGED <<nSteps, sent, content, fault, uiVars, crashArmed>>

\* the error the thread holds after a failed step, named by the step
StepError == nSteps

\* a loop that leaves after it has sent the error
Send_break ==
    /\ pc = "send"
    /\ rxOpen
    /\ queue' = Append(queue, StepError)
    /\ sent' = Append(sent, StepError)
    /\ pc' = "stopped"
    /\ crashArmed' = CrashNotifier_disable(crashArmed)
    /\ UNCHANGED <<fsVars, colVars, lastRes, lastRun, quiet, nSteps, shown, errNotices,
                   crashShown, rxOpen, crashNotices>>

\* a loop that sends the error of a step twice
Send_twice ==
    /\ pc = "send"
    /\ rxOpen
    /\ queue' = queue \o <<StepError, StepError>>
    /\ sent' = sent \o <<StepError, StepError>>
    /\ pc' = "notice"
    /\ UNCHANGED <<fsVars, colVars, lastRes, lastRun, quiet, nSteps, shown, errNotices,
                   crashShown, rxOpen, crashArmed, crashNotices>>

\* tx.send(e) succeeds
Send ==
    /\ pc = "send"
    /\ rxOpen
    /\ queue' = Append(queue, StepError)
    /\ sent' = Append(sent, StepError)
    /\ pc' = "notice"
    /\ UNCHANGED <<fsVars, colVars, lastRes, lastRun, quiet, nSteps, shown, errNotices,
                   crashShown, rxOpen, crashArmed, crashNotices>>

\* tx.send(e) fails: break, crash_notifier.disable(), the thread ends and
\* the guard is dropped
SendFail ==
    /\ pc = "send"
    /\ ~rxOpen
    /\ pc' = "stopped"
    /\ crashArmed' = CrashNotifier_disable(crashArmed)
    /\ crashNotices' = CrashNotifier_drop(CrashNotifier_disable(crashArmed), crashNotices)
    /\ UNCHANGED <<sent, fsVars, colVars, lastRes, lastRun, quiet, nSteps, uiVars>>

\* a loop that tries the step again right after the notice
Notice_retry ==
    /\ pc = "notice"
    /\ errNotices' = errNotices + 1
    /\ pc' = "step"
    /\ UNCHANGED <<sent, fsVars, colVars, lastRes, lastRun, quiet, nSteps, queue, shown,
                   crashShown, rxOpen, crashArmed, crashNotices>>

\* error_notifier.notice()
Notice ==
    /\ pc = "notice"
    /\ errNotices' = errNotices + 1
    /\ pc' = "sleep"
    /\ UNCHANGED <<sent, fsVars, colVars, lastRes, lastRun, quiet, nSteps, queue, shown,
                   crashShown, rxOpen, crashArmed, crashNotices>>

\* thread::sleep(60 s); the iteration's result is gone with the iteration
Sleep ==
    /\ pc = "sleep"
    /\ pc' = "step"
    /\ lastRes' = "none"
    /\ lastRun' = NoRun
    /\ UNCHANGED <<sent, fsVars, colVars, quiet, nSteps, uiVars, crashArmed, crashNotices>>

-----------------------------------------------------------------------------
(* The UI thread *)

RECURSIVE Reverse(_)
Reverse(q) == IF q = <<>> THEN <<>> ELSE Append(Reverse(Tail(q)), Head(q))

\* a drain that yields the newest error first
try_iter_rev(q) == [items |-> Reverse(q), rest |-> <<>>]

\* rx.try_iter() run to its end: every error in the channel, oldest first
try_iter(q) == [items |-> q, rest |-> <<>>]

\* SystemTray::on_error: one notice, the channel drained with try_iter and
\* each error shown
OnError ==
    /\ rxOpen
    /\ errNotices > 0
    /\ errNotices' = errNotices - 1
    /\ shown' = shown \o try_iter(queue).items
    /\ queue' = try_iter(queue).rest
    /\ UNCHANGED <<sent, pc, fsVars, colVars, lastRes, lastRun, quiet, nSteps, crashShown,
                   rxOpen, crashArmed, crashNotices>>

\* SystemTray::on_crash
OnCrash ==
    /\ rxOpen
    /\ crashNotices > 0
    /\ ~crashShown
    /\ crashShown' = TRUE
    /\ UNCHANGED <<sent, pc, fsVars, colVars, lastRes, lastRun, quiet, nSteps, queue, shown,
                   errNotices, rxOpen, crashArmed, crashNotices>>

\* SystemTray::exit and the end of main: the UI is dropped and with it the
\* Receiver and the errors still in the channel
Exit ==
    /\ pc \notin {"init", "setupfailed"}
    /\ rxOpen
    /\ rxOpen' = FALSE
    /\ queue' = <<>>
    /\ UNCHANGED <<sent, pc, fsVars, colVars, lastRes, lastRun, quiet, nSteps, shown,
                   errNotices, crashShown, crashArmed, crashNotices>>

-----------------------------------------------------------------------------
(* The environment: VRChat and the filesystem.  The program reads the      *)
(* filesystem only inside a step, so a change is taken at the point where  *)
(* it becomes visible: before a step.                                      *)

EnvTurn == pc = "step" /\ nSteps < MaxSteps

\* a log file, a directory or a symbolic link appears under a name, or
\* replaces what was there
PutEntry ==
    /\ EnvTurn
    /\ \E p \in EnvPuts :
         /\ watched[p[1]] # p[2]
         /\ watched' = [watched EXCEPT ![p[1]] = p[2]]
    /\ quiet' = FALSE
    /\ UNCHANGED <<sent, pc, content, fault, colVars, lastRes, lastRun, nSteps, uiVars,
                   crashArmed, crashNotices>>

\* log rotation removes an entry
RemoveEntry ==
    /\ EnvTurn
    /\ \E n \in Names :
         /\ watched[n] # NoEntry
         /\ watched' = [watched EXCEPT ![n] = NoEntry]
    /\ quiet' = FALSE
    /\ UNCHANGED <<sent, pc, content, fault, colVars, lastRes, lastRun, nSteps, uiVars,
                   crashArmed, crashNotices>>

\* the writer of a short log appends to it
Grow ==
    /\ EnvTurn
    /\ \E f \in Files :
         /\ Len(content[f]) < HeadLen
         /\ content' = [content EXCEPT ![f] = Grown(content[f])]
    /\ quiet' = FALSE
    /\ UNCHANGED <<sent, pc, watched, fault, colVars, lastRes, lastRun, nSteps, uiVars,
                   crashArmed, crashNotices>>

\* the filesystem starts or stops failing
SetFault ==
    /\ EnvTurn
    /\ \E f \in Faults :
         /\ f # fault
         /\ fault' = f
         /\ quiet' = (quiet /\ f \notin ListFaults /\ fault \notin ListFaults)
    /\ UNCHANGED <<sent, pc, watched, content, colVars, lastRes, lastRun, nSteps, uiVars,
                   crashArmed, crashNotices>>

-----------------------------------------------------------------------------

Next ==
    \/ InitOk
    \/ InitFail
    \/ StepList
    \/ StepLoop
    \/ Send
    \/ SendFail
    \/ Notice
    \/ Sleep
    \/ OnError
    \/ OnCrash
    \/ Exit
    \/ PutEntry
    \/ RemoveEntry
    \/ Grow
    \/ SetFault

Spec == Init /\ [][Next]_vars

\* the background thread executes its next instruction
ThreadRuns ==
    \/ StepList
    \/ StepLoop
    \/ Send
    \/ SendFail
    \/ Notice
    \/ Sleep

\* The thread is scheduled and the UI's event loop handles the notices posted
\* to it while it runs; nothing is assumed of the environment nor of Exit.
Fairness ==
    /\ WF_vars(ThreadRuns)
    /\ WF_vars(OnError)
    /\ WF_vars(OnCrash)

LiveSpec == Init /\ [][Next]_vars /\ Fairness

-----------------------------------------------------------------------------
(* VRCLogfile::new on its own, over the headers a file can begin with *)

ArabicTailOf == <<"xA0", "xA1", "xA2", "xA3", "xA4", "xA5", "xA6", "xA7", "xA8", "xA9">>

\* the UTF-8 bytes of the Arabic-Indic digit n (U+0660 + n)
Ar(n) == <<"xD9", ArabicTailOf[n + 1]>>

HeaderLeads == {<<>>, <<"x", "\n">>, <<"x", "x">>}

HeaderYears ==
    {<<"2", "0", "2", "4">>, Ar(2) \o Ar(0) \o Ar(2) \o Ar(4),
     <<"2">> \o Ar(0) \o <<"2", "4">>, <<"2", "0", "x", "4">>}

HeaderMonths == {<<"0", "3">>, Ar(0) \o Ar(3), <<"1", "3">>, <<"3", "x">>}

HeaderDays == {<<"0", "7">>, Ar(0) \o Ar(7), <<"3", "2">>}

HeaderTimes ==
    {<<" ", "1", "2", ":", "3", "4", ":", "5", "6", " ">>,
     <<" ">> \o Ar(1) \o Ar(2) \o <<":", "3", "4", ":", "5", "6", " ">>,
     <<" ", "1", "2", ":", "3", "4", ":", "5", "6", "x">>}

\* the first 30 bytes of a file of at least 30 bytes
Headers ==
    {SubSeq(lead \o y \o <<".">> \o m \o <<".">> \o d \o t \o Fill(HeadLen), 1, HeadLen) :
        lead \in HeaderLeads, y \in HeaderYears, m \in HeaderMonths,
        d \in HeaderDays, t \in HeaderTimes}

\* one file "h" under the name N1, its header any of Headers
HeaderInit ==
    /\ pc = "new"
    /\ watched = [n \in {N1} |-> FileEntry("h")]
    /\ content \in [{"h"} -> Headers]
    /\ fault = "none"
    /\ dirs = {}
    /\ links = <<>>
    /\ lastRes = "none"
    /\ lastRun = [found |-> FALSE, digits |-> FALSE]
    /\ quiet = FALSE
    /\ nSteps = 0
    /\ sent = <<>>
    /\ queue = <<>>
    /\ shown = <<>>
    /\ errNotices = 0
    /\ crashArmed = TRUE
    /\ crashNotices = 0
    /\ crashShown = FALSE
    /\ rxOpen = TRUE

\* VRCLogfile::new(path) runs on the file: lastRun keeps whether the pattern
\* matched and whether the three parse calls returned
NewHeader ==
    /\ pc = "new"
    /\ pc' = "newdone"
    /\ LET bytes == content[watched[N1].ino]
           captures == RE_captures(SubSeq(bytes, 1, HeadLen))
       IN  /\ lastRes' = Classify(bytes).tag
           /\ lastRun' = [found  |-> captures.found,
                          digits |-> /\ ParseOk(captures.yyyy)
                                     /\ ParseOk(captures.MM)
                                     /\ ParseOk(captures.dd)]
    /\ UNCHANGED <<sent, fsVars, colVars, quiet, nSteps, uiVars, crashArmed, crashNotices>>

HeaderNext == NewHeader

HeaderSpec == HeaderInit /\ [][HeaderNext]_vars

-----------------------------------------------------------------------------
(* The program started on a watched directory that holds a short log *)

\* the thread is about to take its first step; N1 is a log of fewer than 30
\* bytes, N2 is absent or a dated log
ShortInit ==
    /\ pc = "step"
    /\ \E w2 \in {NoEntry, FileEntry("a0")} :
         watched = [n \in Names |-> IF n = N1 THEN FileEntry("sh")
                                    ELSE IF n = N2 THEN w2 ELSE NoEntry]
    /\ \E b \in ShortBodies : content = [InitContent EXCEPT !["sh"] = b]
    /\ fault = "none"
    /\ dirs = {}
    /\ links = <<>>
    /\ lastRes = "none"
    /\ lastRun = NoRun
    /\ quiet = FALSE
    /\ nSteps = 0
    /\ sent = <<>>
    /\ queue = <<>>
    /\ shown = <<>>
    /\ errNotices = 0
    /\ crashArmed = TRUE
    /\ crashNotices = 0
    /\ crashShown = FALSE
    /\ rxOpen = TRUE

\* the thread and the UI run; the watched directory stays as it is
ShortNext ==
    \/ StepList
    \/ StepLoop
    \/ Send
    \/ SendFail
    \/ Notice
    \/ Sleep
    \/ OnError
    \/ Exit

ShortSpec == ShortInit /\ [][ShortNext]_vars

-----------------------------------------------------------------------------
(* list_logfile_paths on its own, over a directory with one entry *)

\* the watched directory holds one entry: any trial name, of any type
NameInit ==
    /\ pc = "list"
    /\ \E n \in TrialNames : \E e \in {FileEntry("a0"), DirEntry, SymlinkEntry} :
         watched = [m \in {n} |-> e]
    /\ content = InitContent
    /\ fault = "none"
    /\ dirs = {}
    /\ links = <<>>
    /\ lastRes = "none"
    /\ lastRun = NoRun
    /\ quiet = FALSE
    /\ nSteps = 0
    /\ sent = <<>>
    /\ queue = <<>>
    /\ shown = <<>>
    /\ errNotices = 0
    /\ crashArmed = TRUE
    /\ crashNotices = 0
    /\ crashShown = FALSE
    /\ rxOpen = TRUE

\* list_logfile_paths() runs and lastRun keeps the paths it returned
ListNames ==
    /\ pc = "list"
    /\ pc' = "listed"
    /\ \E order \in ReadDirOrders :
         lastRun' = [NoRun EXCEPT !.paths = list_logfile_paths(order).paths]
    /\ UNCHANGED <<sent, fsVars, colVars, lastRes, quiet, nSteps, uiVars, crashArmed,
                   crashNotices>>

NameNext == ListNames

NameSpec == NameInit /\ [][NameNext]_vars

-----------------------------------------------------------------------------
(* What the claims speak of *)

Range(seq) == {seq[i] : i \in DOMAIN seq}

Running == {"step", "loop", "send", "notice", "sleep"}

StepErrors == {"list", "read", "mkdir", "link"}

\* the dated log records VRCLogfile::new builds in the current state
Records ==
    {[path |-> n, date |-> VRCLogfile_new(n).date] :
        n \in {m \in Names : VRCLogfile_new(m).tag = "some"}}

\* the entries of the partition folder of a record that bear its file name
EntriesFor(l, rec) ==
    {p \in DOMAIN l : /\ SubSeq(p, 1, 2) = partition_folder_path(rec.date)
                      /\ p[3] = rec.path}

\* output_log_NN-NN-NN.txt read off the name, N an ASCII digit
IsLogName(n) ==
    /\ Len(n) = 23
    /\ SubSeq(n, 1, 11) = <<"o", "u", "t", "p", "u", "t", "_", "l", "o", "g", "_">>
    /\ \A k \in {12, 13, 15, 16, 18, 19} : IsAsciiDigit(n[k])
    /\ n[14] = "-" /\ n[17] = "-"
    /\ SubSeq(n, 20, 23) = <<".", "t", "x", "t">>

\* "YYYY.MM.DD HH:MM:SS " read off the bytes from position s on
StampAt(h, s) ==
    /\ s + 19 <= Len(h)
    /\ \A k \in {0, 1, 2, 3, 5, 6, 8, 9, 11, 12, 14, 15, 17, 18} : IsAsciiDigit(h[s + k])
    /\ h[s + 4] = "." /\ h[s + 7] = "."
    /\ h[s + 10] = " " /\ h[s + 19] = " "
    /\ h[s + 13] = ":" /\ h[s + 16] = ":"

\* the line starts of the first 30 bytes that carry a stamp
StampStarts(bytes) ==
    IF Len(bytes) < 30 THEN {}
    ELSE LET h == SubSeq(bytes, 1, 30)
         IN  {s \in 1..30 : (s = 1 \/ h[s - 1] = "\n") /\ StampAt(h, s)}

\* <YYYY>-<MM>/<DD>/<name> with the digits as they stand in the first stamp
ExpectedDest(n, bytes) ==
    LET s == CHOOSE s \in StampStarts(bytes) : \A t \in StampStarts(bytes) : s <= t
    IN  << SubSeq(bytes, s, s + 3) \o <<"-">> \o SubSeq(bytes, s + 5, s + 6),
           SubSeq(bytes, s + 8, s + 9), n >>

\* the regular files of the watched directory that are dated logs
DatedLogs ==
    {n \in Names : /\ watched[n].kind = "file"
                   /\ IsLogName(n)
                   /\ StampStarts(content[watched[n].ino]) # {}}

\* the candidate the for loop of step is about to process
Candidate == lastRun.paths[lastRun.done + 1]

\* the background thread takes a turn of the for loop
LoopTurn == pc = "loop" /\ (pc' # pc \/ lastRun' # lastRun)

\* the bytes of the regular file under a name
BytesOf(n) == content[watched[n].ino]

\* what the program itself holds and writes: its threads' positions and
\* data, the channel, the notices and the collection
progVars == <<pc, dirs, links, lastRes, lastRun, nSteps, sent, queue, shown,
              errNotices, crashArmed, crashNotices, crashShown, rxOpen>>

\* C1: every directory and every entry under the collection root is still
\* there after any action, and refers to the same file: nothing is deleted,
\* moved or overwritten.
C1_Additive ==
    [][/\ \A d \in dirs : d \in dirs'
       /\ \A p \in DOMAIN links : p \in DOMAIN links' /\ links'[p] = links[p]]_vars

\* a step met an existing destination whose file is not the source's
C1_Witness ==
    /\ pc = "sleep"
    /\ \E rec \in Records :
         /\ rec.path \in Range(lastRun.paths)
         /\ new_link_path(rec) \in DOMAIN links
         /\ links[new_link_path(rec)] # watched[rec.path].ino

\* C2: a step that follows a step that returned Ok, with the watched
\* directory unchanged in between, returns Ok and changes nothing in the
\* collection nor in the watched directory.
C2_RepeatNoOp ==
    [][(\/ pc = "step" /\ quiet /\ nSteps' # nSteps
        \/ pc = "loop" /\ lastRun.again)
        => (/\ pc' \in {"loop", "sleep"}
            /\ pc' = "sleep" => lastRes' = "ok"
            /\ dirs' = dirs /\ links' = links
            /\ watched' = watched /\ content' = content)]_vars

\* such a second step has run over at least one dated log
C2_Witness ==
    /\ lastRun.again
    /\ pc = "sleep"
    /\ \E n \in DatedLogs : n \in Range(lastRun.paths)

\* C3: create_link called twice in succession with the same record: when
\* the first call succeeds the second succeeds too, leaves the store as the
\* first left it, and the record has exactly one destination entry.
C3_LinkTwice ==
    \A rec \in Records :
        LET r1 == create_link(dirs, links, rec)
            r2 == create_link(r1.dirs, r1.links, rec)
        IN  r1.err = ""
            => /\ r2.err = ""
               /\ r2.dirs = r1.dirs
               /\ r2.links = r1.links
               /\ Cardinality(EntriesFor(r2.links, rec)) = 1

\* the program has linked a record in one step and again in the next
C3_Witness ==
    /\ lastRun.again
    /\ lastRes = "ok"
    /\ \E rec \in Records :
         /\ rec.path \in Range(lastRun.paths)
         /\ Cardinality(EntriesFor(links, rec)) = 1
         /\ fault = "link"

\* C4: when a step returns an error, the entries it created before the
\* failing candidate exist and refer to the files they were linked to.
C4_NoRollback ==
    lastRes \in StepErrors
        => \A c \in lastRun.created : c.dest \in DOMAIN links /\ links[c.dest] = c.ino

\* a step has linked a candidate and then failed on a later one
C4_Witness ==
    /\ pc = "send"
    /\ lastRes \in {"read", "mkdir", "link"}
    /\ lastRun.created # {}

\* C5: a step error is not fatal.  With the channel open, sending the error
\* puts it into the channel and leaves the thread running, on its way to
\* the notice; and once it is sent the thread executes another step to its
\* end, after any number of step errors (up to the bound on steps).
C5_ErrorNonFatal ==
    /\ [][(pc = "send" /\ rxOpen /\ pc' # pc)
            => (pc' = "notice" /\ queue' = Append(queue, StepError))]_vars
    /\ [][(pc = "notice" /\ pc' # pc) => (pc' = "sleep" /\ errNotices' = errNotices + 1)]_vars
    /\ \A n \in 1..(MaxSteps - 1) :
         (pc = "notice" /\ nSteps = n) ~> (nSteps = n + 1 /\ pc \notin {"step", "loop"})

\* a second step error in a row was sent and the thread is still running
C5_Witness == pc = "sleep" /\ lastRes \in StepErrors /\ Len(sent) = 2 /\ nSteps = 2

\* C6 as stated: when the loop has left Running because the channel is
\* closed, a terminal notification has been triggered.
C6_StoppedNotifies == pc = "stopped" => crashNotices >= 1

\* C6 amended: the loop leaves Running only when sending a step error finds
\* the channel closed; the guard is then disabled and the task ends with no
\* terminal notification triggered.
C6_StoppedSilent == pc = "stopped" => (~rxOpen /\ ~crashArmed /\ crashNotices = 0)

\* the loop has stopped on a closed channel
C6_Witness == pc = "stopped" /\ lastRes \in StepErrors /\ ~rxOpen

\* C7: the crash notification is sent at most once; it has not been sent
\* while the loop runs, however many step errors were reported; it has been
\* sent exactly once when setup failed and when a panic unwound the thread.
C7_CrashOnce ==
    /\ crashNotices <= 1
    /\ pc \in Running => crashNotices = 0
    /\ pc \in {"setupfailed", "panicked"} => crashNotices = 1

\* the thread panicked after an earlier step error was reported
C7_Witness == pc = "panicked" /\ crashNotices = 1 /\ Len(sent) >= 1

IsPrefix(a, b) == Len(a) <= Len(b) /\ SubSeq(b, 1, Len(a)) = a

\* C8: the consumer shows the errors in the order they were sent, each
\* once and none skipped; while the consumer runs, an error not yet shown
\* is in the channel; when no notice is pending and the thread is not
\* between its send and its notice, the channel is empty; and every error
\* sent is eventually shown, unless the consumer has exited.
C8_Delivery ==
    /\ [](IsPrefix(shown, sent))
    /\ [](rxOpen => shown \o queue = sent)
    /\ []((rxOpen /\ errNotices = 0 /\ pc # "notice") => queue = <<>>)
    /\ \A e \in 1..MaxSteps :
         (e \in Range(sent)) ~> (e \in Range(shown) \/ ~rxOpen)

\* two errors were in the channel at once and one drain has shown both
C8_Witness == Len(shown) = 2 /\ errNotices = 1 /\ rxOpen

\* C9: after a step that returned Ok, every regular file of the watched
\* directory named output_log_NN-NN-NN.txt whose first 30 bytes hold a
\* line-anchored stamp has an entry under its own name at
\* <YYYY>-<MM>/<DD>/ with the digits of the first stamp, whatever the
\* listing order and however often the step ran.
C9_DatedLogsLinked ==
    (pc = "sleep" /\ lastRes = "ok")
        => \A n \in DatedLogs : ExpectedDest(n, content[watched[n].ino]) \in DOMAIN links

\* a step returned Ok over two dated logs of different dates, one stamped
\* in its second line
C9_Witness ==
    /\ pc = "sleep" /\ lastRes = "ok"
    /\ Cardinality(DatedLogs) = 2
    /\ \E n, m \in DatedLogs :
         /\ ExpectedDest(n, content[watched[n].ino])[1]
              # ExpectedDest(m, content[watched[m].ino])[1]
         /\ 1 \notin StampStarts(content[watched[n].ino])

\* C10 as stated: after create_link returned success for a record, the
\* destination entry refers to the file of the record's source path.
C10_DestIsSource ==
    (pc = "sleep" /\ lastRes = "ok")
        => \A rec \in Records :
             rec.path \in Range(lastRun.paths)
                => links[new_link_path(rec)] = watched[rec.path].ino

\* C10 amended: an entry that create_link created refers to the file of the
\* record's source path at that moment; a destination that existed before
\* the call is left as it was.
C10_CreatedIsSource ==
    /\ \A c \in lastRun.created : c.dest \in DOMAIN links /\ links[c.dest] = c.ino
    /\ \A rec \in Records :
         LET r == create_link(dirs, links, rec)
             dst == new_link_path(rec)
         IN  r.err = ""
             => /\ dst \in DOMAIN r.links
                /\ dst \in DOMAIN links => r.links[dst] = links[dst]
                /\ dst \notin DOMAIN links => r.links[dst] = watched[rec.path].ino

\* a step has created two entries
C10_Witness == pc = "sleep" /\ Cardinality(lastRun.created) = 2

\* C11: whenever the date pattern matches the 30-byte header, the three
\* parse calls on the captured year, month and day return: the "digits"
\* assertions do not fail.
C11_DigitsParse == (pc = "newdone" /\ lastRun.found) => lastRun.digits

\* C12: a candidate of at least 30 bytes whose first 30 bytes hold no
\* line-anchored stamp is skipped: the turn of the loop that processes it
\* creates no directory and no link, sends nothing, counts the candidate as
\* done and goes on to the next candidate, or returns Ok when it was the last.
C12_SkipUndated ==
    [][(/\ LoopTurn
        /\ watched[Candidate].kind = "file"
        /\ Len(BytesOf(Candidate)) >= HeadLen
        /\ StampStarts(BytesOf(Candidate)) = {})
        => (/\ dirs' = dirs /\ links' = links
            /\ sent' = sent /\ queue' = queue
            /\ lastRun' = [lastRun EXCEPT !.done = @ + 1]
            /\ IF lastRun.done + 1 < Len(lastRun.paths)
               THEN pc' = "loop"
               ELSE pc' = "sleep" /\ lastRes' = "ok")]_vars

\* a step skipped its first candidate, of 30 bytes without a stamp, and
\* linked the second
C12_Witness ==
    /\ pc = "sleep" /\ lastRes = "ok"
    /\ Len(lastRun.paths) = 2
    /\ Len(BytesOf(lastRun.paths[1])) >= HeadLen
    /\ StampStarts(BytesOf(lastRun.paths[1])) = {}
    /\ \E c \in lastRun.created : c.dest[3] = lastRun.paths[2]

\* C13: a candidate shorter than 30 bytes, the empty file included, makes
\* its turn of the loop return a read error from the step without touching
\* the collection; with the channel open the thread then sends that error;
\* and no entry of the collection bears the name of a file that short.
C13_ShortIsError ==
    /\ [][(/\ LoopTurn
           /\ watched[Candidate].kind = "file"
           /\ Len(BytesOf(Candidate)) < HeadLen)
           => (/\ pc' = "send" /\ lastRes' = "read"
               /\ dirs' = dirs /\ links' = links)]_vars
    /\ [][(pc = "send" /\ rxOpen /\ pc' # pc)
           => (sent' = Append(sent, StepError) /\ queue' = Append(queue, StepError))]_vars
    /\ [](\A n \in Names :
            (watched[n].kind = "file" /\ Len(BytesOf(n)) < HeadLen)
                => \A p \in DOMAIN links : p[3] # n)

\* the error of a step that linked a dated log and then met an empty file
\* is in the channel
C13_Witness ==
    /\ pc = "notice"
    /\ lastRes = "read"
    /\ BytesOf(N1) = <<>>
    /\ lastRun.created # {}
    /\ queue = <<1>>

\* C14: when read_dir fails, or reading an entry or its file type fails,
\* the step gets no list at all, returns the listing error, and has changed
\* nothing under the collection root.
C14_ListFailsWhole ==
    [][(/\ pc = "step" /\ nSteps' # nSteps
        /\ \/ fault = "read_dir"
           \/ fault = "dir_entry" /\ Present # {})
        => (/\ pc' = "send" /\ lastRes' = "list"
            /\ lastRun'.paths = <<>> /\ lastRun'.done = 0 /\ lastRun'.created = {}
            /\ dirs' = dirs /\ links' = links)]_vars

\* a step failed on an entry of a directory that holds two dated logs, none
\* of them linked yet
C14_Witness ==
    /\ pc = "send" /\ lastRes = "list"
    /\ fault = "dir_entry"
    /\ Cardinality(DatedLogs) = 2
    /\ links = <<>>

\* C15: every action of the program, whether its step succeeds, fails or
\* panics, leaves the entries of the watched directory and the bytes of
\* every file as they were.
C15_SourceReadOnly ==
    [][progVars' # progVars => (watched' = watched /\ content' = content)]_vars

\* after a step that failed, a step linked a log and then panicked on the
\* next, and both logs are still in the watched directory
C15_Witness ==
    /\ pc = "panicked"
    /\ Len(sent) = 1
    /\ lastRun.created # {}
    /\ \A n \in Range(lastRun.paths) : watched[n].kind = "file"

\* C16: list_logfile_paths returns an entry exactly when it is a regular
\* file whose whole name is output_log_NN-NN-NN.txt, each N one of 0..9.
C16_FilterExact ==
    pc = "listed"
        => \A n \in DOMAIN watched :
             (n \in Range(lastRun.paths)) <=> (watched[n].kind = "file" /\ IsLogName(n))

\* C17: the errors sent are errors of distinct steps, in the order of the
\* steps, so never more than the steps executed; the error of the current
\* step has been sent exactly once when the thread has passed its send, and
\* not at all before the send nor when the step returned Ok.
C17_OneErrorPerStep ==
    /\ Len(sent) <= nSteps
    /\ \A i, j \in DOMAIN sent : i < j => sent[i] < sent[j]
    /\ \A i \in DOMAIN sent : sent[i] \in 1..nSteps
    /\ (pc = "notice" \/ (pc = "sleep" /\ lastRes \in StepErrors))
          => (sent # <<>> /\ sent[Len(sent)] = nSteps)
    /\ (pc \in {"loop", "send"} \/ (pc = "sleep" /\ lastRes = "ok"))
          => nSteps \notin Range(sent)

\* a step over two candidates, both too short to classify, has reported
\* one error
C17_Witness ==
    /\ pc = "sleep" /\ lastRes = "read"
    /\ Len(lastRun.paths) = 2
    /\ \A n \in Range(lastRun.paths) : Len(BytesOf(n)) < HeadLen
    /\ sent = <<1>>

\* C18: the thread starts a step only at the head of its loop, which it
\* reaches from the start of the thread or by the interval sleep and leaves
\* only by starting a step; a step that returned Ok goes to the sleep, a
\* step that returned an error goes to the send and, the error sent, by the
\* notice to the sleep; only a send on a closed channel ends the loop, and
\* an ended thread starts no step.
C18_SleepBetweenSteps ==
    /\ [][nSteps' # nSteps
            => (pc = "step" /\ pc' \in {"loop", "sleep", "send"} /\ nSteps' = nSteps + 1)]_vars
    /\ [][(pc' = "step" /\ pc # "step") => pc \in {"init", "sleep"}]_vars
    /\ [][(pc = "step" /\ pc' # pc) => nSteps' # nSteps]_vars
    /\ [][(pc \in {"step", "loop"} /\ pc' \notin {"step", "loop"})
            => \/ pc' = "sleep" /\ lastRes' = "ok"
               \/ pc' = "send" /\ lastRes' \in StepErrors
               \/ pc' = "panicked" /\ lastRes' = "panic"]_vars
    /\ [][(pc = "send" /\ pc' # pc)
            => IF rxOpen THEN pc' = "notice" ELSE pc' = "stopped"]_vars
    /\ [][(pc = "notice" /\ pc' # pc) => pc' = "sleep"]_vars
    /\ [][(pc = "sleep" /\ pc' # pc) => (pc' = "step" /\ nSteps' = nSteps)]_vars
    /\ [][(pc \in {"stopped", "panicked"}) => (pc' = pc /\ nSteps' = nSteps)]_vars

\* the second step runs after a first step that failed, was reported and
\* was followed by the sleep
C18_Witness == pc = "loop" /\ nSteps = 2 /\ sent = <<1>>

\* C19: a turn of the step's loop handles the next candidate of the listing
\* and no other: it adds entries under that candidate's name only, and
\* either counts it as done, when the candidate could be read and, if
\* dated, has its entry, or leaves the step with an error or a panic.
\* Outside the loop the collection does not change, so what a step created
\* belongs to candidates listed before the one it stopped at.
C19_StopAtFirstFailure ==
    /\ [][LoopTurn
            => (/\ lastRun'.paths = lastRun.paths
                /\ lastRun'.done \in {lastRun.done, lastRun.done + 1}
                /\ \A p \in DOMAIN links' \ DOMAIN links : p[3] = Candidate)]_vars
    /\ [][(LoopTurn /\ lastRun'.done = lastRun.done + 1)
            => (/\ watched[Candidate].kind = "file"
                /\ Len(BytesOf(Candidate)) >= HeadLen
                /\ StampStarts(BytesOf(Candidate)) # {}
                     => ExpectedDest(Candidate, BytesOf(Candidate)) \in DOMAIN links')]_vars
    /\ [][(LoopTurn /\ lastRun'.done = lastRun.done)
            => (pc' \in {"send", "panicked"} /\ links' = links)]_vars
    /\ [][(pc # "loop") => (dirs' = dirs /\ links' = links)]_vars
    /\ [](\A c \in lastRun.created :
            \E i \in 1..lastRun.done : c.dest[3] = lastRun.paths[i])

\* in two steps with the same listing a log too short to classify came
\* first, and the dated log listed after it is still not linked
C19_Witness ==
    /\ nSteps = 2 /\ sent = <<1>>
    /\ pc = "send" /\ lastRes = "read"
    /\ lastRun.done = 0
    /\ Len(lastRun.paths) = 2
    /\ lastRun.paths[2] \in DatedLogs
    /\ links = <<>>

====
